---- MODULE Spec2Model ----
(***************************************************************************)
(* SearchWorkerPool: the pool of SearchAgent workers behind the            *)
(* execute_subtasks tool (src/search_agent/mcp_servers/                    *)
(* search_worker_pool.py) and its worker handle (coordination/             *)
(* _worker_wrapper.py).                                                    *)
(*                                                                         *)
(* The server is one asyncio event loop.  A coroutine runs without         *)
(* interruption from one await that suspends to the next, so every action  *)
(* below is the code between two suspension points.  The suspension points *)
(* are: the gather of the executors' start() in initialize_pool, each      *)
(* executor run() call, each asyncio.sleep(1) of the retry loop, and the   *)
(* gather of the batch's tasks.  pool_lock is never held across one of     *)
(* them, so acquiring it never suspends.                                   *)
(***************************************************************************)
EXTENDS Integers, Sequences, FiniteSets, TLC

(* ------------------------------ bounds --------------------------------- *)

\* The configured size of the "search" pool (get_pool_size("search")).
MAX_POOL_SIZE == 1

\* Most subtasks that calls in progress at the same time carry between
\* them; a call that is alone may carry any batch of BatchInputs.
MaxLoad == 2

\* The count of sequential full-capacity batches saturates here.
MaxSeq == 2

\* Most direct calls of execute on one wrapper.
MaxCalls == 2

\* The logical clock stops here.
MaxTime == 2

(* ------------------------- program constants --------------------------- *)

max_retrys == 5

\* The client requests that may be in progress at the same time, named in
\* the order a free name is taken.
Callers == {1, 2}

\* Task texts: the batches submitted are the prefixes of "a", "b", "c".
Letters == <<"a", "b", "c">>

BatchInputs == { SubSeq(Letters, 1, n) : n \in 0 .. Len(Letters) }

\* A dict is a set of <<key, value>> pairs; None is kept apart from {}.
None == {<<"None", 0>>}

HasKey(d, k) == \E p \in d : p[1] = k

DictGet(d, k, default) ==
    IF HasKey(d, k) THEN (CHOOSE p \in d : p[1] = k)[2] ELSE default

\* The configs initialize_pool is called with: None and a dict that sets a
\* max_pool_size other than the default.
Configs == {None, {<<"max_pool_size", MAX_POOL_SIZE + 2>>}}

\* The classes of ordinary errors (subclasses of Exception) a run() raises.
Errors == {"TimeoutError"}

\* Classes that "isinstance(x, Exception)" accepts.
ExceptionClasses == Errors \cup {"RuntimeError"}

VARIABLES
    worker_pool,        \* list of WorkerAgentWrapper, in creation order
    pool_config,        \* dict
    pool_initialized,   \* _pool_initialized
    op,                 \* per caller: the call in progress
    phase,              \* per caller: where the call is suspended
    subtasks,           \* per caller: the argument of execute_subtasks
    init_size,          \* per caller: max_pool_size local to initialize_pool
    max_pool_size,      \* per caller: max_pool_size local to execute_subtasks
    available,          \* per caller: the claimed handles (pool positions)
    task,               \* per caller: the execute_on_agent coroutines
    ret,                \* per caller: what the call returned or raised
    seq_full,           \* history: full-capacity batches completed while no
                        \* two calls ever overlapped; -1 once two overlapped
    config_arg,         \* per caller: the config argument of initialize_pool
    pool_lock,          \* pool_lock.locked()
    writes,             \* history: the kinds of write to the pool made so far
    call,               \* per slot: a direct call of WorkerAgentWrapper.execute
    now,                \* datetime.now(), as a logical clock
    executor            \* per standalone wrapper: the run() calls it received

\* The state of the direct calls of WorkerAgentWrapper.execute.
wvars == <<call, now, executor>>

vars ==
    <<worker_pool, pool_config, pool_initialized, op, phase, subtasks,
      init_size, max_pool_size, available, task, ret, seq_full, config_arg,
      pool_lock, writes, call, now, executor>>

(* ------------------------------ helpers -------------------------------- *)

Min(a, b) == IF a < b THEN a ELSE b

Range(s) == { s[i] : i \in 1 .. Len(s) }

\* WorkerAgentWrapper(agent, f"search_agent_{i}"); the executor a handle
\* owns is known by the handle's position in worker_pool.  agent_started
\* tells whether start() of that executor has returned (its _agent_graph is
\* set): the wrappers are built after the gather of the starts.
WorkerAgentWrapper(i) ==
    [agent_id |-> <<"search_agent", i>>, created_at |-> now, last_used |-> now,
     is_busy |-> FALSE, task_count |-> 0, agent_started |-> TRUE]

NoRet == [kind |-> "none"]

\* No initialize_pool frame: the call has no config argument.
NoArg == {<<"no call", 0>>}

\* worker_pool.append(wrapper) in initialize_pool, outside pool_lock.
AppendWrite == [target |-> "worker_pool", locked |-> FALSE]

\* agent.is_busy = ... in execute_subtasks, inside "async with pool_lock".
BusyWrite == [target |-> "is_busy", locked |-> TRUE]

\* The coroutines that call WorkerAgentWrapper.execute directly.
Slots == {1, 2}

\* The standalone wrappers those calls are made on (positions).
Wrappers == {1, 2}

NoCall == [pc |-> "idle"]

NewExecutor == [runs |-> 0, last_arg |-> "none"]

InFlight(c) == phase[c] \in {"starting", "executing"}

\* A returned call is taken off the loop before anything else runs: the
\* frame of a finished call has no effect on the pool.
Quiet == \A c \in Callers : phase[c] # "returned"

\* A new request takes the first free name.
FirstFree(c) ==
    /\ Quiet
    /\ phase[c] = "idle"
    /\ \A d \in Callers : d < c => phase[d] # "idle"

RECURSIVE LoadOf(_)
LoadOf(S) ==
    IF S = {} THEN 0
    ELSE LET c == CHOOSE x \in S : TRUE
         IN  (IF InFlight(c) THEN Len(subtasks[c]) ELSE 0) + LoadOf(S \ {c})

Load == LoadOf(Callers)

\* The bound on what is in progress: a call is alone, or the load with the
\* n subtasks it adds is within MaxLoad.
WithinLoad(c, n) ==
    \/ \A d \in Callers \ {c} : ~InFlight(d)
    \/ Load + n <= MaxLoad

\* The history variable at the start of a call by c.
StartHistory(c) ==
    IF \E d \in Callers \ {c} : InFlight(d) THEN -1 ELSE seq_full

(* --------------------------- pool operations --------------------------- *)

\* pool_config.get("max_pool_size", MAX_POOL_SIZE)
PoolCapacity == DictGet(pool_config, "max_pool_size", MAX_POOL_SIZE)

\* A scan that does not look at is_busy.
AllHandles(pool) == [i \in 1 .. Len(pool) |-> i]

\* [w for w in worker_pool if not w.is_busy]
IdleHandles(pool) ==
    SelectSeq([i \in 1 .. Len(pool) |-> i], LAMBDA i : ~pool[i].is_busy)

\* A claim that takes the last idle handles of the pool.
AvailableLast(pool, n) ==
    LET idle == IdleHandles(pool)
    IN  IF Len(idle) < n THEN idle
        ELSE SubSeq(idle, Len(idle) - n + 1, Len(idle))

\* A claim whose slice is one short.
AvailableShort(pool, n) ==
    LET idle == IdleHandles(pool)
    IN  SubSeq(idle, 1, Min(n - 1, Len(idle)))

\* [w for w in worker_pool if not w.is_busy][: len(subtasks)]
Available(pool, n) ==
    LET idle == IdleHandles(pool)
    IN  SubSeq(idle, 1, Min(n, Len(idle)))

\* A claim that marks nothing.
MarkBusyNone(pool, avail) == pool

\* A claim that marks every handle of the pool.
MarkBusyAll(pool, avail) ==
    [i \in 1 .. Len(pool) |-> [pool[i] EXCEPT !.is_busy = TRUE]]

\* A claim that marks all the handles it took but the last.
MarkBusyButLast(pool, avail) ==
    [i \in 1 .. Len(pool) |->
        IF i \in Range(SubSeq(avail, 1, Len(avail) - 1))
        THEN [pool[i] EXCEPT !.is_busy = TRUE] ELSE pool[i]]

\* for agent in available: agent.is_busy = True
MarkBusy(pool, avail) ==
    [i \in 1 .. Len(pool) |->
        IF i \in Range(avail) THEN [pool[i] EXCEPT !.is_busy = TRUE] ELSE pool[i]]

\* A release that skips the first claimed handle.
ReleaseButFirst(pool, avail) ==
    [i \in 1 .. Len(pool) |->
        IF i \in Range(Tail(avail)) THEN [pool[i] EXCEPT !.is_busy = FALSE] ELSE pool[i]]

\* A release that goes over the whole pool.
ReleaseAll(pool, avail) ==
    [i \in 1 .. Len(pool) |-> [pool[i] EXCEPT !.is_busy = FALSE]]

\* finally: for agent in available: agent.is_busy = False
Release(pool, avail) ==
    [i \in 1 .. Len(pool) |->
        IF i \in Range(avail) THEN [pool[i] EXCEPT !.is_busy = FALSE] ELSE pool[i]]

BusyCount(pool) == Cardinality({ i \in 1 .. Len(pool) : pool[i].is_busy })

(* ------------------------- errors and records -------------------------- *)

EmptyBatchError ==
    [kind |-> "error", class |-> "ValueError",
     message |-> <<"Must provide at least 1 subtask">>]

\* An oversized batch reported with the error of the empty batch.
TooManyAsEmpty(n, cap) ==
    [kind |-> "error", class |-> "ValueError",
     message |-> <<"Must provide at least 1 subtask">>]

TooManyError(n, cap) ==
    [kind |-> "error", class |-> "ValueError",
     message |-> <<"Too many subtasks", n, "for pool size", cap>>]

NotEnoughError(n, got) ==
    [kind |-> "error", class |-> "RuntimeError",
     message |-> <<"Not enough agents. Requested:", n, "Available:", got>>]

StartError ==
    [kind |-> "error", class |-> "StartError", message |-> <<"start() failed">>]

\* _extract_output_from_dict on a response that has an "output" key.
ExtractOutput(response) == response.output

\* A record that counts positions from 1.
SuccessRecordOneBased(agent_id, subtask, idx, response) ==
    [subtask_index |-> idx + 1, subtask |-> subtask,
     result |-> ExtractOutput(response), agent_id |-> agent_id]

\* The dict execute_on_agent returns (idx is 0-based, as enumerate gives it).
SuccessRecord(agent_id, subtask, idx, response) ==
    [subtask_index |-> idx, subtask |-> subtask,
     result |-> ExtractOutput(response), agent_id |-> agent_id]

\* An error message that reports the index of the last attempt.
ErrorMessageZeroBased(agent_id, subtask, idx, exc, elapsed) ==
    [agent_id |-> agent_id, attempts |-> max_retrys - 1, took |-> elapsed,
     idx |-> idx, subtask |-> subtask, error_type |-> exc]

\* error_message of the last failed attempt; elapsed is the time since the
\* task began, in the model the seconds it spent in its waits.
ErrorMessage(agent_id, subtask, idx, exc, elapsed) ==
    [agent_id |-> agent_id, attempts |-> max_retrys, took |-> elapsed,
     idx |-> idx, subtask |-> subtask, error_type |-> exc]

RuntimeError(msg) == [class |-> "RuntimeError", message |-> msg]

CancelledError == [class |-> "CancelledError"]

NoOut == [none |-> TRUE]

\* A new execute_on_agent coroutine, about to make its first run() call.
\* attempt is the loop variable (0-based); a finished task keeps the value
\* it ended with, except that a cancelled task's is not kept.  waited is
\* the time, in seconds, the task has spent in asyncio.sleep so far.
NewTask == [pc |-> "run", attempt |-> 0, waited |-> 0, out |-> NoOut]

Terminal(t) == t.pc \in {"ok", "failed", "base"}

\* isinstance(result, Exception)
IsException(r) == "class" \in DOMAIN r /\ r.class \in ExceptionClasses

\* A partition that puts each new success in front (successful.insert(0, r)).
SuccessfulReversed(results) ==
    LET kept == SelectSeq(results, LAMBDA r : ~IsException(r))
    IN  [j \in 1 .. Len(kept) |-> kept[Len(kept) + 1 - j]]

\* A partition whose else branch is taken for every result.
SuccessfulAll(results) == results

\* successful: the gathered results that are not Exception instances.
Successful(results) == SelectSeq(results, LAMBDA r : ~IsException(r))

\* failed: {"error": str(result)} for every Exception instance.
Failed(results) ==
    LET excs == SelectSeq(results, IsException)
    IN  [j \in 1 .. Len(excs) |-> [error |-> excs[j].message]]

\* The dict execute_subtasks returns.
BatchResult(results, n, used, cap) ==
    [kind |-> "result", results |-> Successful(results),
     failed |-> Failed(results), subtasks_count |-> n,
     agents_used |-> used, pool_size |-> cap]

(* ------------------------------- Init ---------------------------------- *)

Init ==
    /\ worker_pool = <<>>
    /\ pool_config = {}
    /\ pool_initialized = FALSE
    /\ op = [c \in Callers |-> "none"]
    /\ phase = [c \in Callers |-> "idle"]
    /\ subtasks = [c \in Callers |-> <<>>]
    /\ init_size = [c \in Callers |-> 0]
    /\ max_pool_size = [c \in Callers |-> 0]
    /\ available = [c \in Callers |-> <<>>]
    /\ task = [c \in Callers |-> <<>>]
    /\ ret = [c \in Callers |-> NoRet]
    /\ seq_full = 0
    /\ config_arg = [c \in Callers |-> NoArg]
    /\ pool_lock = FALSE
    /\ writes = {}
    /\ call = [s \in Slots |-> NoCall]
    /\ now = 0
    /\ executor = [h \in Wrappers |-> NewExecutor]

(* --------------------------- initialize_pool --------------------------- *)

\* initialize_pool from "if config is None" to the await of the starts:
\* pool_config is assigned and the agents are created and being started.
InitializeEnter(c, config) ==
    LET cfg == IF config = None
               THEN {<<"max_pool_size", MAX_POOL_SIZE>>}
               ELSE config
    IN  /\ pool_config' = cfg
        /\ init_size' = [init_size EXCEPT ![c] = DictGet(cfg, "max_pool_size", MAX_POOL_SIZE)]
        /\ phase' = [phase EXCEPT ![c] = "starting"]

\* The wrappers initialize_pool appends once every start() has returned.
NewWrappers(c) == [i \in 1 .. init_size[c] |-> WorkerAgentWrapper(i - 1)]

\* An initialize_pool without the "if _pool_initialized: return".
InitializePoolAlways(c, config) ==
    /\ FirstFree(c)
    /\ WithinLoad(c, 0)
    /\ op' = [op EXCEPT ![c] = "initialize_pool"]
    /\ seq_full' = StartHistory(c)
    /\ InitializeEnter(c, config)
    /\ config_arg' = [config_arg EXCEPT ![c] = config]
    /\ UNCHANGED <<worker_pool, pool_initialized, subtasks, max_pool_size,
                   available, task, ret, pool_lock, writes, wvars>>

\* A call of initialize_pool(config) by the backend.
InitializePool(c, config) ==
    /\ FirstFree(c)
    /\ WithinLoad(c, 0)
    /\ op' = [op EXCEPT ![c] = "initialize_pool"]
    /\ seq_full' = StartHistory(c)
    /\ IF pool_initialized
       THEN /\ phase' = [phase EXCEPT ![c] = "returned"]
            /\ UNCHANGED <<pool_config, init_size>>
       ELSE InitializeEnter(c, config)
    /\ config_arg' = [config_arg EXCEPT ![c] = config]
    /\ UNCHANGED <<worker_pool, pool_initialized, subtasks, max_pool_size,
                   available, task, ret, pool_lock, writes, wvars>>

(* -------------------------- execute_subtasks --------------------------- *)

\* An admission that refuses a batch of exactly max_pool_size subtasks.
AdmissionStrict(st, pool) ==
    LET n == Len(st)
        cap == PoolCapacity
        avail == Available(pool, n)
    IN  IF n < 1
        THEN [phase |-> "returned", ret |-> EmptyBatchError, cap |-> 0,
              available |-> <<>>, pool |-> pool, task |-> <<>>,
              lock |-> FALSE, writes |-> {}]
        ELSE IF n >= cap
        THEN [phase |-> "returned", ret |-> TooManyError(n, cap), cap |-> cap,
              available |-> <<>>, pool |-> pool, task |-> <<>>,
              lock |-> FALSE, writes |-> {}]
        ELSE IF Len(avail) < n
        THEN [phase |-> "returned", ret |-> NotEnoughError(n, Len(avail)),
              cap |-> cap, available |-> <<>>, pool |-> pool, task |-> <<>>,
              lock |-> FALSE, writes |-> {}]
        ELSE [phase |-> "executing", ret |-> NoRet, cap |-> cap,
              available |-> avail, pool |-> MarkBusy(pool, avail),
              task |-> [i \in 1 .. n |-> NewTask],
              lock |-> FALSE, writes |-> {BusyWrite}]

\* An admission that cuts an oversized batch down to max_pool_size subtasks.
AdmissionTruncating(st, pool) ==
    LET cap == PoolCapacity
        n == Min(Len(st), cap)
        avail == Available(pool, n)
    IN  IF Len(st) < 1
        THEN [phase |-> "returned", ret |-> EmptyBatchError, cap |-> 0,
              available |-> <<>>, pool |-> pool, task |-> <<>>,
              lock |-> FALSE, writes |-> {}]
        ELSE IF Len(avail) < n
        THEN [phase |-> "returned", ret |-> NotEnoughError(n, Len(avail)),
              cap |-> cap, available |-> <<>>, pool |-> pool, task |-> <<>>,
              lock |-> FALSE, writes |-> {}]
        ELSE [phase |-> "executing", ret |-> NoRet, cap |-> cap,
              available |-> avail, pool |-> MarkBusy(pool, avail),
              task |-> [i \in 1 .. n |-> NewTask],
              lock |-> FALSE, writes |-> {BusyWrite}]

\* An admission whose gather is awaited inside "async with pool_lock".
AdmissionAwaitInside(st, pool) ==
    LET n == Len(st)
        cap == PoolCapacity
        avail == Available(pool, n)
    IN  IF n < 1
        THEN [phase |-> "returned", ret |-> EmptyBatchError, cap |-> 0,
              available |-> <<>>, pool |-> pool, task |-> <<>>,
              lock |-> FALSE, writes |-> {}]
        ELSE IF n > cap
        THEN [phase |-> "returned", ret |-> TooManyError(n, cap), cap |-> cap,
              available |-> <<>>, pool |-> pool, task |-> <<>>,
              lock |-> FALSE, writes |-> {}]
        ELSE IF Len(avail) < n
        THEN [phase |-> "returned", ret |-> NotEnoughError(n, Len(avail)),
              cap |-> cap, available |-> <<>>, pool |-> pool, task |-> <<>>,
              lock |-> FALSE, writes |-> {}]
        ELSE [phase |-> "executing", ret |-> NoRet, cap |-> cap,
              available |-> avail, pool |-> MarkBusy(pool, avail),
              task |-> [i \in 1 .. n |-> NewTask],
              lock |-> TRUE, writes |-> {BusyWrite}]

\* An admission that parks a batch short of idle handles, to try again.
AdmissionQueued(st, pool) ==
    LET n == Len(st)
        cap == PoolCapacity
        avail == Available(pool, n)
    IN  IF n < 1
        THEN [phase |-> "returned", ret |-> EmptyBatchError, cap |-> 0,
              available |-> <<>>, pool |-> pool, task |-> <<>>,
              lock |-> FALSE, writes |-> {}]
        ELSE IF n > cap
        THEN [phase |-> "returned", ret |-> TooManyError(n, cap), cap |-> cap,
              available |-> <<>>, pool |-> pool, task |-> <<>>,
              lock |-> FALSE, writes |-> {}]
        ELSE IF Len(avail) < n
        THEN [phase |-> "starting", ret |-> NoRet,
              cap |-> cap, available |-> <<>>, pool |-> pool, task |-> <<>>,
              lock |-> FALSE, writes |-> {}]
        ELSE [phase |-> "executing", ret |-> NoRet, cap |-> cap,
              available |-> avail, pool |-> MarkBusy(pool, avail),
              task |-> [i \in 1 .. n |-> NewTask],
              lock |-> FALSE, writes |-> {BusyWrite}]

\* An admission without the "Not enough agents" check: the batch goes on
\* with the handles it found (zip stops at the shorter list).
AdmissionPartial(st, pool) ==
    LET n == Len(st)
        cap == PoolCapacity
        avail == Available(pool, n)
    IN  IF n < 1
        THEN [phase |-> "returned", ret |-> EmptyBatchError, cap |-> 0,
              available |-> <<>>, pool |-> pool, task |-> <<>>,
              lock |-> FALSE, writes |-> {}]
        ELSE IF n > cap
        THEN [phase |-> "returned", ret |-> TooManyError(n, cap), cap |-> cap,
              available |-> <<>>, pool |-> pool, task |-> <<>>,
              lock |-> FALSE, writes |-> {}]
        ELSE [phase |-> "executing", ret |-> NoRet, cap |-> cap,
              available |-> avail, pool |-> MarkBusy(pool, avail),
              task |-> [i \in 1 .. Len(avail) |-> NewTask],
              lock |-> FALSE, writes |-> {BusyWrite}]

\* Validation and claim (lines 140-158) on the pool as it is when the call
\* gets there: the state of the call afterwards.  "async with pool_lock"
\* is left, by the raise or at the end of the block, before the call
\* suspends: lock is pool_lock.locked() at that point.
Admission(st, pool) ==
    LET n == Len(st)
        cap == PoolCapacity
        avail == Available(pool, n)
    IN  IF n < 1
        THEN [phase |-> "returned", ret |-> EmptyBatchError, cap |-> 0,
              available |-> <<>>, pool |-> pool, task |-> <<>>,
              lock |-> FALSE, writes |-> {}]
        ELSE IF n > cap
        THEN [phase |-> "returned", ret |-> TooManyError(n, cap), cap |-> cap,
              available |-> <<>>, pool |-> pool, task |-> <<>>,
              lock |-> FALSE, writes |-> {}]
        ELSE IF Len(avail) < n
        THEN [phase |-> "returned", ret |-> NotEnoughError(n, Len(avail)),
              cap |-> cap, available |-> <<>>, pool |-> pool, task |-> <<>>,
              lock |-> FALSE, writes |-> {}]
        ELSE [phase |-> "executing", ret |-> NoRet, cap |-> cap,
              available |-> avail, pool |-> MarkBusy(pool, avail),
              task |-> [i \in 1 .. n |-> NewTask],
              lock |-> FALSE, writes |-> {BusyWrite}]

\* The call takes the outcome of Admission; "async with pool_lock" goes
\* on when the lock is free.
Admit(c, a) ==
    /\ ~pool_lock
    /\ worker_pool' = a.pool
    /\ phase' = [phase EXCEPT ![c] = a.phase]
    /\ ret' = [ret EXCEPT ![c] = a.ret]
    /\ max_pool_size' = [max_pool_size EXCEPT ![c] = a.cap]
    /\ available' = [available EXCEPT ![c] = a.available]
    /\ task' = [task EXCEPT ![c] = a.task]
    /\ pool_lock' = a.lock

\* The subtasks a call of execute_subtasks(st) adds to the load: none when
\* it is rejected on the spot.
Carried(st) ==
    IF pool_initialized /\ Admission(st, worker_pool).phase = "returned"
    THEN 0
    ELSE Len(st)

\* A call of execute_subtasks(st), up to its first suspension: the starts
\* of initialize_pool when the pool is not initialized, else the gather of
\* the tasks (or the error raised before it).
ExecuteSubtasks(c, st) ==
    /\ FirstFree(c)
    /\ WithinLoad(c, Carried(st))
    /\ op' = [op EXCEPT ![c] = "execute_subtasks"]
    /\ subtasks' = [subtasks EXCEPT ![c] = st]
    /\ seq_full' = StartHistory(c)
    /\ IF ~pool_initialized
       THEN /\ InitializeEnter(c, None)
            /\ config_arg' = [config_arg EXCEPT ![c] = None]
            /\ UNCHANGED <<worker_pool, max_pool_size, available, task, ret,
                           pool_lock, writes>>
       ELSE /\ Admit(c, Admission(st, worker_pool))
            /\ writes' = writes \cup Admission(st, worker_pool).writes
            /\ UNCHANGED <<pool_config, init_size, config_arg>>
    /\ UNCHANGED <<pool_initialized, wvars>>

\* Every start() returned: the wrappers are appended, the pool is marked
\* initialized, and an execute_subtasks call goes on to validation and
\* claim without suspending.
StartsDone(c) ==
    /\ Quiet
    /\ phase[c] = "starting"
    /\ pool_initialized' = TRUE
    /\ IF op[c] = "initialize_pool"
       THEN /\ worker_pool' = worker_pool \o NewWrappers(c)
            /\ phase' = [phase EXCEPT ![c] = "returned"]
            /\ writes' = writes \cup {AppendWrite}
            /\ UNCHANGED <<max_pool_size, available, task, ret, pool_lock>>
       ELSE /\ Admit(c, Admission(subtasks[c], worker_pool \o NewWrappers(c)))
            /\ writes' = writes \cup {AppendWrite} \cup
                    Admission(subtasks[c], worker_pool \o NewWrappers(c)).writes
    /\ UNCHANGED <<pool_config, op, subtasks, init_size, seq_full, config_arg,
                   wvars>>

\* An initialization that keeps the wrapper of the agents that did start.
StartsFailPartial(c) ==
    /\ Quiet
    /\ phase[c] = "starting"
    /\ phase' = [phase EXCEPT ![c] = "returned"]
    /\ ret' = [ret EXCEPT ![c] = StartError]
    /\ worker_pool' = worker_pool \o SubSeq(NewWrappers(c), 1, init_size[c] - 1)
    /\ pool_initialized' = TRUE
    /\ UNCHANGED <<pool_config, op, subtasks,
                   init_size, max_pool_size, available, task, seq_full,
                   config_arg, pool_lock, writes, wvars>>

\* A gather of the starts that collects their exceptions: the call goes on
\* and appends the wrappers, the one of the agent that did not start too.
StartsFailIgnored(c) ==
    /\ Quiet
    /\ phase[c] = "starting"
    /\ phase' = [phase EXCEPT ![c] = "returned"]
    /\ worker_pool' = worker_pool \o
            [i \in 1 .. init_size[c] |->
                [NewWrappers(c)[i] EXCEPT !.agent_started = (i < init_size[c])]]
    /\ pool_initialized' = TRUE
    /\ UNCHANGED <<pool_config, op, subtasks, ret,
                   init_size, max_pool_size, available, task, seq_full,
                   config_arg, pool_lock, writes, wvars>>

\* A start() raised: gather re-raises it, nothing is appended and the flag
\* stays false; the error reaches the caller.
StartsFail(c) ==
    /\ Quiet
    /\ phase[c] = "starting"
    /\ phase' = [phase EXCEPT ![c] = "returned"]
    /\ ret' = [ret EXCEPT ![c] = StartError]
    /\ UNCHANGED <<worker_pool, pool_config, pool_initialized, op, subtasks,
                   init_size, max_pool_size, available, task, seq_full,
                   config_arg, pool_lock, writes, wvars>>

(* --------------------------- execute_on_agent -------------------------- *)

\* The executor responses a successful run() gives.
Responses == {[output |-> "found"]}

\* A handle taken from a variable the loop has left at its first value:
\* every task names the first claimed handle.
AgentIdOfFirst(c, i) == worker_pool[available[c][1]].agent_id

\* agent.agent_id of the handle execute_on_agent was given for subtask i.
AgentIdOf(c, i) == worker_pool[available[c][i]].agent_id

\* A retry loop that gives up one attempt early.
OnExceptionEarly(t, agent_id, subtask, idx, exc) ==
    IF t.attempt < max_retrys - 2
    THEN [t EXCEPT !.pc = "sleep"]
    ELSE [t EXCEPT !.pc = "failed",
                   !.out = RuntimeError(ErrorMessage(agent_id, subtask, idx, exc, t.waited))]

\* A retry loop that allows one attempt more.
OnExceptionExtra(t, agent_id, subtask, idx, exc) ==
    IF t.attempt < max_retrys
    THEN [t EXCEPT !.pc = "sleep"]
    ELSE [t EXCEPT !.pc = "failed",
                   !.out = RuntimeError(ErrorMessage(agent_id, subtask, idx, exc, t.waited))]

\* A retry loop without a bound: after the last attempt it goes round again.
OnExceptionForever(t, agent_id, subtask, idx, exc) ==
    IF t.attempt < max_retrys - 1
    THEN [t EXCEPT !.pc = "sleep"]
    ELSE [t EXCEPT !.pc = "sleep", !.attempt = @ - 1, !.waited = @ - 1]

\* "except Exception" of attempt number t.attempt: sleep and retry while
\* attempts remain, else raise RuntimeError(error_message).
OnException(t, agent_id, subtask, idx, exc) ==
    IF t.attempt < max_retrys - 1
    THEN [t EXCEPT !.pc = "sleep"]
    ELSE [t EXCEPT !.pc = "failed",
                   !.out = RuntimeError(ErrorMessage(agent_id, subtask, idx, exc, t.waited))]

\* A backoff that grows with the attempt number.
BackoffGrowing(attempt) == attempt + 1

\* The delay of asyncio.sleep(1) after the failed attempt, in seconds.
Backoff(attempt) == 1

TaskStep(c, i, t) ==
    /\ task' = [task EXCEPT ![c][i] = t]
    /\ UNCHANGED <<worker_pool, pool_config, pool_initialized, op, phase,
                   subtasks, init_size, max_pool_size, available, ret,
                   seq_full, config_arg, pool_lock, writes, wvars>>

\* agent.agent.run(subtask) returns: the task returns its record.
RunReturns(c, i, response) ==
    /\ Quiet
    /\ phase[c] = "executing"
    /\ task[c][i].pc = "run"
    /\ TaskStep(c, i, [task[c][i] EXCEPT
            !.pc = "ok",
            !.out = SuccessRecord(AgentIdOf(c, i), subtasks[c][i], i - 1, response)])

\* asyncio.CancelledError raised out of execute_subtasks.
CallCancelled ==
    [kind |-> "error", class |-> "CancelledError", message |-> <<"cancelled">>]

\* The tasks of c once gather has cancelled its children: a task that had
\* not finished ends with CancelledError.
CancelledTasks(c) ==
    [i \in 1 .. Len(task[c]) |->
        IF Terminal(task[c][i]) THEN task[c][i]
        ELSE [pc |-> "base", attempt |-> 0, waited |-> 0, out |-> CancelledError]]

\* A failure that cancels the unfinished siblings of the task (the way of
\* a TaskGroup, or of a gather without return_exceptions).
RunRaisesCancelling(c, i, exc) ==
    /\ Quiet
    /\ phase[c] = "executing"
    /\ task[c][i].pc = "run"
    /\ task' = [task EXCEPT ![c] =
            [j \in 1 .. Len(task[c]) |->
                IF j = i
                THEN OnException(task[c][i], AgentIdOf(c, i), subtasks[c][i], i - 1, exc)
                ELSE CancelledTasks(c)[j]]]
    /\ UNCHANGED <<worker_pool, pool_config, pool_initialized, op, phase,
                   subtasks, init_size, max_pool_size, available, ret,
                   seq_full, config_arg, pool_lock, writes, wvars>>

\* agent.agent.run(subtask) raises an Exception.
RunRaises(c, i, exc) ==
    /\ Quiet
    /\ phase[c] = "executing"
    /\ task[c][i].pc = "run"
    /\ TaskStep(c, i, OnException(task[c][i], AgentIdOf(c, i), subtasks[c][i], i - 1, exc))

\* agent.agent.run(subtask) raises asyncio.CancelledError, which is no
\* Exception: "except Exception" lets it through and the task ends with it.
RunCancelled(c, i) ==
    /\ Quiet
    /\ phase[c] = "executing"
    /\ task[c][i].pc = "run"
    /\ TaskStep(c, i, [task[c][i] EXCEPT
            !.pc = "base", !.attempt = 0, !.waited = 0, !.out = CancelledError])

\* asyncio.sleep(1) is over: the next iteration of the retry loop calls run().
SleepDone(c, i) ==
    /\ Quiet
    /\ phase[c] = "executing"
    /\ task[c][i].pc = "sleep"
    /\ TaskStep(c, i, [task[c][i] EXCEPT
            !.pc = "run",
            !.attempt = @ + 1,
            !.waited = @ + Backoff(task[c][i].attempt)])

(* ----------------------- aggregation and release ----------------------- *)

\* What gather(*tasks, return_exceptions=True) gives, in input order.
Gathered(c) == [i \in 1 .. Len(task[c]) |-> task[c][i].out]

\* The history variable when the batch of c has returned.
ReturnHistory(c) ==
    IF seq_full >= 0 /\ Len(subtasks[c]) = PoolCapacity
    THEN Min(seq_full + 1, MaxSeq)
    ELSE seq_full

\* A gather without return_exceptions: the first exception of a task is
\* raised out of execute_subtasks.
ReturnRaising(c) ==
    /\ Quiet
    /\ phase[c] = "executing"
    /\ \A i \in 1 .. Len(task[c]) : Terminal(task[c][i])
    /\ ret' = [ret EXCEPT ![c] =
            IF \E i \in 1 .. Len(task[c]) : IsException(task[c][i].out)
            THEN [kind |-> "error", class |-> "RuntimeError",
                  message |-> <<"task failed">>]
            ELSE BatchResult(Gathered(c), Len(subtasks[c]), Len(available[c]),
                             max_pool_size[c])]
    /\ worker_pool' = Release(worker_pool, available[c])
    /\ phase' = [phase EXCEPT ![c] = "returned"]
    /\ seq_full' = ReturnHistory(c)
    /\ pool_lock' = FALSE
    /\ writes' = writes \cup {BusyWrite}
    /\ UNCHANGED <<pool_config, pool_initialized, op, subtasks, init_size,
                   max_pool_size, available, task, config_arg, wvars>>

\* A dispatcher that waits for the first task only (FIRST_COMPLETED).
ReturnFirstDone(c) ==
    /\ Quiet
    /\ ~pool_lock
    /\ phase[c] = "executing"
    /\ \E i \in 1 .. Len(task[c]) : Terminal(task[c][i])
    /\ ret' = [ret EXCEPT ![c] =
            BatchResult(Gathered(c), Len(subtasks[c]), Len(available[c]),
                        max_pool_size[c])]
    /\ worker_pool' = Release(worker_pool, available[c])
    /\ phase' = [phase EXCEPT ![c] = "returned"]
    /\ seq_full' = ReturnHistory(c)
    /\ pool_lock' = FALSE
    /\ writes' = writes \cup {BusyWrite}
    /\ UNCHANGED <<pool_config, pool_initialized, op, subtasks, init_size,
                   max_pool_size, available, task, config_arg, wvars>>

\* Every task is done: the results are split into successful and failed,
\* the dict is returned and the finally block releases the claimed handles.
Return(c) ==
    /\ Quiet
    /\ ~pool_lock
    /\ phase[c] = "executing"
    /\ \A i \in 1 .. Len(task[c]) : Terminal(task[c][i])
    /\ ret' = [ret EXCEPT ![c] =
            BatchResult(Gathered(c), Len(subtasks[c]), Len(available[c]),
                        max_pool_size[c])]
    /\ worker_pool' = Release(worker_pool, available[c])
    /\ phase' = [phase EXCEPT ![c] = "returned"]
    /\ seq_full' = ReturnHistory(c)
    /\ pool_lock' = FALSE
    /\ writes' = writes \cup {BusyWrite}
    /\ UNCHANGED <<pool_config, pool_initialized, op, subtasks, init_size,
                   max_pool_size, available, task, config_arg, wvars>>

\* A cancellation whose release is not in a finally block.
CancelNoRelease(c) ==
    /\ Quiet
    /\ phase[c] = "executing"
    /\ ret' = [ret EXCEPT ![c] = CallCancelled]
    /\ task' = [task EXCEPT ![c] = CancelledTasks(c)]
    /\ phase' = [phase EXCEPT ![c] = "returned"]
    /\ UNCHANGED <<worker_pool, pool_lock, writes>>
    /\ UNCHANGED <<pool_config, pool_initialized, op, subtasks, init_size,
                   max_pool_size, available, seq_full, config_arg, wvars>>

\* A cancellation that releases the handles at once and leaves the tasks
\* of the batch running (a dispatcher that does not wait for its children).
CancelDetached(c) ==
    /\ Quiet
    /\ ~pool_lock
    /\ phase[c] = "executing"
    /\ ret' = [ret EXCEPT ![c] = CallCancelled]
    /\ phase' = [phase EXCEPT ![c] = "returned"]
    /\ worker_pool' = Release(worker_pool, available[c])
    /\ pool_lock' = FALSE
    /\ writes' = writes \cup {BusyWrite}
    /\ UNCHANGED <<pool_config, pool_initialized, op, subtasks, init_size,
                   max_pool_size, available, task, seq_full, config_arg, wvars>>

\* The call of c is cancelled while it awaits the gather of its tasks (a
\* caller-side timeout, a dropped request).  gather cancels its children
\* and completes, with CancelledError, when all of them are done; the
\* claimed handles stay busy until then.  The error is raised at line 212
\* and the finally block releases the handles.
Cancel(c) ==
    /\ Quiet
    /\ ~pool_lock
    /\ phase[c] = "executing"
    /\ ret' = [ret EXCEPT ![c] = CallCancelled]
    /\ task' = [task EXCEPT ![c] = CancelledTasks(c)]
    /\ phase' = [phase EXCEPT ![c] = "returned"]
    /\ worker_pool' = Release(worker_pool, available[c])
    /\ pool_lock' = FALSE
    /\ writes' = writes \cup {BusyWrite}
    /\ UNCHANGED <<pool_config, pool_initialized, op, subtasks, init_size,
                   max_pool_size, available, seq_full, config_arg, wvars>>

\* The caller has its answer; the call's frame is gone.
Done(c) ==
    /\ phase[c] = "returned"
    /\ op' = [op EXCEPT ![c] = "none"]
    /\ phase' = [phase EXCEPT ![c] = "idle"]
    /\ subtasks' = [subtasks EXCEPT ![c] = <<>>]
    /\ init_size' = [init_size EXCEPT ![c] = 0]
    /\ max_pool_size' = [max_pool_size EXCEPT ![c] = 0]
    /\ available' = [available EXCEPT ![c] = <<>>]
    /\ task' = [task EXCEPT ![c] = <<>>]
    /\ ret' = [ret EXCEPT ![c] = NoRet]
    /\ config_arg' = [config_arg EXCEPT ![c] = NoArg]
    /\ UNCHANGED <<worker_pool, pool_config, pool_initialized, seq_full,
                   pool_lock, writes, wvars>>

(* ---------------------- WorkerAgentWrapper.execute --------------------- *)

\* The state of the pool module, which a direct call of execute leaves alone.
pvars ==
    <<pool_config, pool_initialized, op, phase, subtasks, init_size,
      max_pool_size, available, task, ret, seq_full, config_arg, pool_lock,
      writes>>

\* Two wrappers built on executors of their own; no pool call is made.
WrapperInit ==
    /\ now = 0
    /\ worker_pool = [h \in Wrappers |-> WorkerAgentWrapper(h - 1)]
    /\ pool_config = {}
    /\ pool_initialized = FALSE
    /\ op = [c \in Callers |-> "none"]
    /\ phase = [c \in Callers |-> "idle"]
    /\ subtasks = [c \in Callers |-> <<>>]
    /\ init_size = [c \in Callers |-> 0]
    /\ max_pool_size = [c \in Callers |-> 0]
    /\ available = [c \in Callers |-> <<>>]
    /\ task = [c \in Callers |-> <<>>]
    /\ ret = [c \in Callers |-> NoRet]
    /\ seq_full = 0
    /\ config_arg = [c \in Callers |-> NoArg]
    /\ pool_lock = FALSE
    /\ writes = {}
    /\ call = [s \in Slots |-> NoCall]
    /\ executor = [h \in Wrappers |-> NewExecutor]

\* Time passes.
Tick ==
    /\ now < MaxTime
    /\ now' = now + 1
    /\ UNCHANGED <<worker_pool, call, executor, pvars>>

\* wrapper.execute(subtask) up to its await: the wrapper is marked and
\* self.agent.run(subtask) is called.
Execute(s, h, subtask) ==
    /\ call[s].pc = "idle"
    /\ worker_pool[h].task_count < MaxCalls
    /\ worker_pool' = [worker_pool EXCEPT ![h] =
            [@ EXCEPT !.is_busy = TRUE,
                      !.task_count = @ + 1,
                      !.last_used = now]]
    /\ executor' = [executor EXCEPT ![h] =
            [runs |-> @.runs + 1, last_arg |-> subtask]]
    /\ call' = [call EXCEPT ![s] =
            [pc |-> "running", wrapper |-> h, subtask |-> subtask,
             run_result |-> NoOut, run_error |-> "none",
             result |-> NoOut, error |-> "none"]]
    /\ UNCHANGED <<now, pvars>>

\* run() returns: execute returns its result; finally clears is_busy.
ExecuteReturns(s, response) ==
    /\ call[s].pc = "running"
    /\ call' = [call EXCEPT ![s] =
            [@ EXCEPT !.pc = "returned", !.run_result = response,
                      !.result = response]]
    /\ worker_pool' = [worker_pool EXCEPT ![call[s].wrapper].is_busy = FALSE]
    /\ UNCHANGED <<now, executor, pvars>>

\* An execute that calls run() again when it raises.
ExecuteRaisesRetry(s, exc) ==
    /\ call[s].pc = "running"
    /\ call' = [call EXCEPT ![s] = [@ EXCEPT !.run_error = exc]]
    /\ executor' = [executor EXCEPT ![call[s].wrapper].runs = @ + 1]
    /\ UNCHANGED <<worker_pool, now, pvars>>

\* run() raises: nothing catches the error, finally clears is_busy and the
\* error reaches the caller of execute.
ExecuteRaises(s, exc) ==
    /\ call[s].pc = "running"
    /\ call' = [call EXCEPT ![s] =
            [@ EXCEPT !.pc = "raised", !.run_error = exc, !.error = exc]]
    /\ worker_pool' = [worker_pool EXCEPT ![call[s].wrapper].is_busy = FALSE]
    /\ UNCHANGED <<now, executor, pvars>>

\* The caller of execute has its answer.
ExecuteDone(s) ==
    /\ call[s].pc \in {"returned", "raised"}
    /\ call' = [call EXCEPT ![s] = NoCall]
    /\ UNCHANGED <<worker_pool, now, executor, pvars>>

\* The task texts of the direct calls.
Texts == {"a", "b"}

\* What run() raises: an ordinary error or a cancellation.
Raised == Errors \cup {"CancelledError"}

WrapperNext ==
    \/ Tick
    \/ \E s \in Slots, h \in Wrappers, subtask \in Texts : Execute(s, h, subtask)
    \/ \E s \in Slots, response \in Responses : ExecuteReturns(s, response)
    \/ \E s \in Slots, exc \in Raised : ExecuteRaises(s, exc)
    \/ \E s \in Slots : ExecuteDone(s)

WrapperSpec == WrapperInit /\ [][WrapperNext]_vars

(* ------------------------------- Next ---------------------------------- *)

Next ==
    \E c \in Callers :
        \/ \E config \in Configs : InitializePool(c, config)
        \/ \E st \in BatchInputs : ExecuteSubtasks(c, st)
        \/ StartsDone(c)
        \/ StartsFail(c)
        \/ \E i \in 1 .. Len(task[c]), response \in Responses : RunReturns(c, i, response)
        \/ \E i \in 1 .. Len(task[c]), exc \in Errors : RunRaises(c, i, exc)
        \/ \E i \in 1 .. Len(task[c]) : RunCancelled(c, i)
        \/ \E i \in 1 .. Len(task[c]) : SleepDone(c, i)
        \/ Return(c)
        \/ Cancel(c)
        \/ Done(c)

Spec == Init /\ [][Next]_vars

(* ------------------------------ fairness ------------------------------- *)

\* A step of the batch of c that the event loop takes by itself: a run()
\* call of one of its tasks returns or raises, a sleep of one of its tasks
\* is over, or the gather is done and the call returns.
Progress(c) ==
    \/ \E i \in 1 .. Len(task[c]), response \in Responses : RunReturns(c, i, response)
    \/ \E i \in 1 .. Len(task[c]), exc \in Errors : RunRaises(c, i, exc)
    \/ \E i \in 1 .. Len(task[c]) : SleepDone(c, i)
    \/ Return(c)

\* The event loop runs every callback that is ready, timers fire, and every
\* run() call returns or raises in the end; the caller of a finished call
\* takes its answer.  A step of a batch is held back only while the answer
\* of another call is handed over (Quiet), which Done ends, so the
\* fairness on Progress is strong.  New requests and cancellations come
\* from outside and are not forced.
FairSpec ==
    /\ Spec
    /\ \A c \in Callers : SF_vars(Progress(c)) /\ WF_vars(Done(c))

(* ----------------------------- properties ------------------------------ *)

\* The call of c has returned the dict of an admitted batch.  Nothing has
\* run since (Quiet), so the pool is as the call left it.
Answered(c) == phase[c] = "returned" /\ ret[c].kind = "result"

\* The call of c was cancelled while its batch executed.
Cancelled(c) ==
    /\ phase[c] = "returned"
    /\ ret[c].kind = "error"
    /\ ret[c].class = "CancelledError"

IsSuccessRecord(r) == "subtask_index" \in DOMAIN r

\* The entries of "results" that carry input index idx.
SuccessesOf(c, idx) ==
    { j \in 1 .. Len(ret[c].results) :
        /\ IsSuccessRecord(ret[c].results[j])
        /\ ret[c].results[j].subtask_index = idx }

\* The entries of "failed" whose error text names input index idx.
FailuresOf(c, idx) ==
    { j \in 1 .. Len(ret[c].failed) : ret[c].failed[j].error.idx = idx }

PcsOf(c) == [i \in 1 .. Len(task[c]) |-> task[c][i].pc]

\* C1: an admitted call that returns a result has
\* len(results) + len(failed) = len(subtasks), and a task that returned or
\* exhausted its retries has exactly one entry, on one side only.
C1_OneOutcomePerSubtask ==
    \A c \in Callers : Answered(c) =>
        /\ Len(ret[c].results) + Len(ret[c].failed) = Len(subtasks[c])
        /\ \A i \in 1 .. Len(task[c]) :
              /\ task[c][i].pc = "ok" =>
                    /\ Cardinality(SuccessesOf(c, i - 1)) = 1
                    /\ FailuresOf(c, i - 1) = {}
              /\ task[c][i].pc = "failed" =>
                    /\ Cardinality(FailuresOf(c, i - 1)) = 1
                    /\ SuccessesOf(c, i - 1) = {}

\* A batch of three has returned with entries on both sides.
C1_Witness ==
    \E c \in Callers :
        /\ Answered(c)
        /\ Len(subtasks[c]) = 3
        /\ Len(ret[c].results) = 2
        /\ Len(ret[c].failed) = 1

\* C2: when an admitted call has returned, every handle it claimed is idle;
\* after one or more full-capacity batches run one after the other, with
\* nothing in progress, the idle handles number the pool capacity.
C2_NoWorkerLeaks ==
    /\ \A c \in Callers : Answered(c) =>
          \A h \in Range(available[c]) : ~worker_pool[h].is_busy
    /\ (seq_full >= 1 /\ \A c \in Callers : ~InFlight(c)) =>
          Len(IdleHandles(worker_pool)) = PoolCapacity

\* The last of MaxSeq sequential full-capacity batches, one of more than
\* one task with mixed outcomes, has returned.
C2_Witness ==
    \E c \in Callers :
        /\ Answered(c)
        /\ seq_full = MaxSeq
        /\ Len(subtasks[c]) = PoolCapacity
        /\ "ok" \in Range(PcsOf(c))
        /\ "failed" \in Range(PcsOf(c))
        /\ Len(IdleHandles(worker_pool)) = PoolCapacity

\* C3: the handles marked busy never number more than the capacity the
\* pool is configured with.
C3_BusyWithinCapacity == BusyCount(worker_pool) <= PoolCapacity

\* C4: two batches in flight at the same time hold disjoint sets of
\* handles, and a batch holds no handle twice.
C4_ClaimsDisjoint ==
    /\ \A c \in Callers : \A i, j \in 1 .. Len(available[c]) :
          i # j => available[c][i] # available[c][j]
    /\ \A c, d \in Callers :
          (c # d /\ phase[c] = "executing" /\ phase[d] = "executing") =>
              Range(available[c]) \cap Range(available[d]) = {}

\* Two batches are in flight, each holding a handle.
C4_Witness ==
    \A c \in Callers : phase[c] = "executing" /\ available[c] # <<>>

\* The call of c has been refused with the given kind of error.
Refused(c, class, text) ==
    /\ phase[c] = "returned"
    /\ op[c] = "execute_subtasks"
    /\ ret[c].kind = "error"
    /\ ret[c].class = class
    /\ ret[c].message[1] = text

NotEnough(c) == Refused(c, "RuntimeError", "Not enough agents. Requested:")

StartFailed(c) == Refused(c, "StartError", "start() failed")

BusyHandles == { h \in 1 .. Len(worker_pool) : worker_pool[h].is_busy }

\* The handles held by the batches in flight other than c's.
HeldByOthers(c) ==
    UNION { Range(available[d]) : d \in { e \in Callers \ {c} : phase[e] = "executing" } }

\* C5: a batch of valid size that finds fewer idle handles than subtasks is
\* refused with "Not enough agents"; the refused call holds no handle, has
\* started no task and leaves busy only what other batches hold; a batch
\* that executes holds one handle and one task per subtask.
C5_AllOrNothing ==
    \A c \in Callers :
        /\ phase[c] = "executing" =>
              /\ Len(available[c]) = Len(subtasks[c])
              /\ Len(task[c]) = Len(subtasks[c])
        /\ ( /\ phase[c] = "returned"
             /\ op[c] = "execute_subtasks"
             /\ ~StartFailed(c)
             /\ Len(subtasks[c]) >= 1
             /\ Len(subtasks[c]) <= PoolCapacity
             /\ Len(IdleHandles(worker_pool)) < Len(subtasks[c]) ) => NotEnough(c)
        /\ NotEnough(c) =>
              /\ ret[c].message[2] = Len(subtasks[c])
              /\ ret[c].message[4] = Len(IdleHandles(worker_pool))
              /\ ret[c].message[4] < Len(subtasks[c])
              /\ available[c] = <<>>
              /\ task[c] = <<>>
              /\ BusyHandles = HeldByOthers(c)

\* A batch in flight holds all but one handle of the pool and a batch of
\* two has been refused.
C5_Witness ==
    \E c, d \in Callers :
        /\ phase[d] = "executing"
        /\ Len(worker_pool) = PoolCapacity
        /\ Len(available[d]) = PoolCapacity - 1
        /\ Len(available[d]) >= 1
        /\ NotEnough(c)
        /\ Len(subtasks[c]) = 2

\* C6: a batch that was admitted and not cancelled returns a result dict
\* whatever its tasks did; a task that failed its max_retrys attempts has its one record in
\* "failed", made of its error message, and a sibling that returned has its
\* record in "results".
C6_ExhaustedTaskInFailed ==
    \A c \in Callers :
        /\ (phase[c] = "returned" /\ task[c] # <<>> /\ ~Cancelled(c)) => Answered(c)
        /\ Answered(c) =>
              \A i \in 1 .. Len(task[c]) :
                  /\ task[c][i].pc = "failed" =>
                        /\ task[c][i].out.message.attempts = max_retrys
                        /\ \E j \in 1 .. Len(ret[c].failed) :
                              /\ FailuresOf(c, i - 1) = {j}
                              /\ ret[c].failed[j] = [error |-> task[c][i].out.message]
                  /\ task[c][i].pc = "ok" =>
                        \E j \in 1 .. Len(ret[c].results) :
                            ret[c].results[j] = task[c][i].out

\* A batch of three has returned: two tasks exhausted their retries and the
\* third returned.
C6_Witness ==
    \E c \in Callers :
        /\ Answered(c)
        /\ PcsOf(c) = <<"failed", "failed", "ok">>
        /\ Len(ret[c].failed) = 2
        /\ Len(ret[c].results) = 1

FirstTry(c) ==
    \A i \in 1 .. Len(task[c]) : task[c][i].pc = "ok" /\ task[c][i].attempt = 0

\* C8: on a pool that holds its max_pool_size handles, all idle, a batch
\* of 1 to max_pool_size subtasks whose executors started, and that is not
\* cancelled, is not refused;
\* when every task returned at its first attempt the result has
\* len(subtasks) records and no failure, and with no other batch in flight
\* every handle is idle.
C8_ValidBatchAllSucceed ==
    \A c \in Callers :
        /\ ( /\ phase[c] = "returned"
             /\ op[c] = "execute_subtasks"
             /\ ~StartFailed(c)
             /\ ~Cancelled(c)
             /\ Len(subtasks[c]) >= 1
             /\ Len(subtasks[c]) <= PoolCapacity
             /\ Len(worker_pool) = PoolCapacity
             /\ BusyHandles = {} ) => Answered(c)
        /\ (Answered(c) /\ FirstTry(c)) =>
              /\ Len(ret[c].results) = Len(subtasks[c])
              /\ ret[c].failed = <<>>
              /\ (\A d \in Callers : phase[d] # "executing") => BusyHandles = {}

\* A batch of exactly max_pool_size (more than one) subtasks has returned,
\* every task at its first attempt, and the whole pool is idle.
C8_Witness ==
    \E c \in Callers :
        /\ Answered(c)
        /\ FirstTry(c)
        /\ Len(subtasks[c]) = PoolCapacity
        /\ Len(subtasks[c]) > 1
        /\ Len(ret[c].results) = PoolCapacity
        /\ Len(IdleHandles(worker_pool)) = PoolCapacity

EmptyBatch(c) == Refused(c, "ValueError", "Must provide at least 1 subtask")

TooMany(c) == Refused(c, "ValueError", "Too many subtasks")

\* C9: a batch that executes has 1 to max_pool_size subtasks and one task
\* for each; an empty batch and a batch of more than max_pool_size
\* subtasks are refused with a ValueError, and the refused call holds no
\* handle, has started no task and leaves busy only what other batches
\* hold.
C9_BadSizeRejected ==
    \A c \in Callers :
        /\ phase[c] = "executing" =>
              /\ Len(subtasks[c]) >= 1
              /\ Len(subtasks[c]) <= PoolCapacity
              /\ Len(task[c]) = Len(subtasks[c])
        /\ Answered(c) => ret[c].subtasks_count = Len(subtasks[c])
        /\ ( /\ phase[c] = "returned"
             /\ op[c] = "execute_subtasks"
             /\ ~StartFailed(c) ) =>
                /\ Len(subtasks[c]) = 0 => EmptyBatch(c)
                /\ Len(subtasks[c]) > PoolCapacity => TooMany(c)
        /\ (EmptyBatch(c) \/ TooMany(c)) =>
              /\ available[c] = <<>>
              /\ task[c] = <<>>
              /\ BusyHandles = HeldByOthers(c)

\* A batch of max_pool_size + 1 subtasks has been refused while another
\* batch is in flight.
C9_Witness ==
    \E c, d \in Callers :
        /\ TooMany(c)
        /\ Len(subtasks[c]) = PoolCapacity + 1
        /\ phase[d] = "executing"
        /\ BusyHandles # {}

\* The input positions (0-based) of the tasks of c that ended with pc.
IndicesOf(c, pc) == { i - 1 : i \in { k \in 1 .. Len(task[c]) : task[c][k].pc = pc } }

\* C10: in a returned result every success record carries the 0-based
\* input position and the text of a task that returned, every failure
\* record names the position and text of a task that exhausted its
\* retries, and each such task has exactly one record.
C10_IndexFidelity ==
    \A c \in Callers : Answered(c) =>
        /\ \A j \in 1 .. Len(ret[c].results) :
              LET r == ret[c].results[j]
              IN  IsSuccessRecord(r) =>
                    /\ r.subtask_index \in IndicesOf(c, "ok")
                    /\ r.subtask = subtasks[c][r.subtask_index + 1]
                    /\ SuccessesOf(c, r.subtask_index) = {j}
        /\ \A j \in 1 .. Len(ret[c].failed) :
              LET e == ret[c].failed[j].error
              IN  /\ e.idx \in IndicesOf(c, "failed")
                  /\ e.subtask = subtasks[c][e.idx + 1]
                  /\ FailuresOf(c, e.idx) = {j}
        /\ \A idx \in IndicesOf(c, "ok") : SuccessesOf(c, idx) # {}
        /\ \A idx \in IndicesOf(c, "failed") : FailuresOf(c, idx) # {}

\* The batch a, b, c has returned: b exhausted its retries, a and c
\* returned; "failed" has the one record of index 1 and "results" the
\* records of indices 0 and 2.
C10_Witness ==
    \E c \in Callers :
        /\ Answered(c)
        /\ subtasks[c] = <<"a", "b", "c">>
        /\ PcsOf(c) = <<"ok", "failed", "ok">>
        /\ Len(ret[c].failed) = 1
        /\ ret[c].failed[1].error.idx = 1
        /\ Len(ret[c].results) = 2
        /\ ret[c].results[1].subtask_index = 0
        /\ ret[c].results[2].subtask_index = 2

\* C11: once _pool_initialized is set it stays set and pool_config is not
\* assigned again; a call of initialize_pool made then, whatever its
\* config, returns at once and leaves worker_pool as it is.
C11_InitializeIdempotent ==
    [][ /\ pool_initialized => (pool_initialized' /\ pool_config' = pool_config)
        /\ \A c \in Callers :
              ( /\ pool_initialized
                /\ phase[c] = "idle"
                /\ op'[c] = "initialize_pool" ) =>
                    /\ phase'[c] = "returned"
                    /\ init_size'[c] = 0
                    /\ worker_pool' = worker_pool ]_vars

\* On a pool initialized with the default size, a call of initialize_pool
\* with another max_pool_size has returned without creating anything.
C11_Witness ==
    \E c \in Callers :
        /\ phase[c] = "returned"
        /\ op[c] = "initialize_pool"
        /\ config_arg[c] = {<<"max_pool_size", MAX_POOL_SIZE + 2>>}
        /\ init_size[c] = 0
        /\ pool_initialized
        /\ PoolCapacity = MAX_POOL_SIZE
        /\ Len(worker_pool) = MAX_POOL_SIZE

\* C12: an initialized pool holds no more handles than the max_pool_size
\* of pool_config, however the initializing calls overlapped.
C12_InitializedOnce == pool_initialized => Len(worker_pool) <= PoolCapacity

\* The call of c, initialize_pool or execute_subtasks, ended with the error
\* of a start().
InitFailed(c) ==
    /\ phase[c] = "returned"
    /\ ret[c].kind = "error"
    /\ ret[c].class = "StartError"

\* C13: a pool that is not initialized holds no handle and no batch
\* executes on it; the step in which a call ends with the error of a
\* start() appends nothing and does not set _pool_initialized, and the
\* call has claimed nothing and started no task.
C13_StartFailureIsFatal ==
    /\ [](~pool_initialized =>
            /\ worker_pool = <<>>
            /\ \A c \in Callers : phase[c] # "executing")
    /\ [](\A c \in Callers : InitFailed(c) =>
            /\ available[c] = <<>>
            /\ task[c] = <<>>
            /\ seq_full >= 0 => ~pool_initialized)
    /\ [][ \A c \in Callers :
            (phase[c] = "starting" /\ InitFailed(c)') =>
                /\ worker_pool' = worker_pool
                /\ pool_initialized' = pool_initialized ]_vars

\* An initialize_pool call for more than one worker has ended with the
\* error of a start(): the pool is empty and not initialized.
C13_Witness ==
    \E c \in Callers :
        /\ InitFailed(c)
        /\ op[c] = "initialize_pool"
        /\ init_size[c] > 1
        /\ ~pool_initialized
        /\ worker_pool = <<>>

\* C14: when a call that claimed handles has ended, by returning its
\* result or by an exception raised at the gather, every handle it claimed
\* is idle.
C14_ReleaseOnEveryExit ==
    \A c \in Callers :
        phase[c] = "returned" =>
            \A h \in Range(available[c]) : ~worker_pool[h].is_busy

\* A batch of more than one subtask has ended with an exception while its
\* tasks were running, and its handles are idle.
C14_Witness ==
    \E c \in Callers :
        /\ Cancelled(c)
        /\ Len(available[c]) > 1
        /\ \A i \in 1 .. Len(task[c]) : task[c][i].pc = "base"
        /\ \A h \in Range(available[c]) : ~worker_pool[h].is_busy

\* What tells one error from another for the caller: its class and the
\* fixed part of its text.
Signature(e) == <<e.class, e.message[1]>>

Sizes == 0 .. Len(Letters) + 1

\* The three errors, for all sizes, differ pairwise.
ErrorsDiffer ==
    \A n, cap, got \in Sizes :
        /\ Signature(EmptyBatchError) # Signature(TooManyError(n, cap))
        /\ Signature(EmptyBatchError) # Signature(NotEnoughError(n, got))
        /\ \A k \in Sizes :
              Signature(TooManyError(n, cap)) # Signature(NotEnoughError(k, got))

\* C15: the errors of the empty batch, of the oversized batch and of the
\* batch short of idle handles differ pairwise in class or text; a refused
\* call has the error of its own case, and a call that claimed handles
\* ends with none of the three.
C15_RejectionsDistinct ==
    /\ ErrorsDiffer
    /\ \A c \in Callers :
          /\ EmptyBatch(c) => Len(subtasks[c]) = 0
          /\ TooMany(c) => Len(subtasks[c]) > PoolCapacity
          /\ NotEnough(c) =>
                /\ Len(subtasks[c]) \in 1 .. PoolCapacity
                /\ Len(IdleHandles(worker_pool)) < Len(subtasks[c])
          /\ (phase[c] = "returned" /\ available[c] # <<>>) =>
                ~(EmptyBatch(c) \/ TooMany(c) \/ NotEnough(c))

\* An empty batch has been refused on an initialized pool on which another
\* batch is executing.
C15_Witness ==
    \E c, d \in Callers :
        /\ EmptyBatch(c)
        /\ ret[c] = EmptyBatchError
        /\ pool_initialized
        /\ phase[d] = "executing"

\* The run() calls in flight on the executor of the handle at position h:
\* the tasks suspended in "await agent.agent.run(subtask)" on it.
RunsOn(h) ==
    { ci \in Callers \X (1 .. Len(Letters)) :
        /\ phase[ci[1]] = "executing"
        /\ ci[2] <= Len(task[ci[1]])
        /\ task[ci[1]][ci[2]].pc = "run"
        /\ available[ci[1]][ci[2]] = h }

\* C16: on the executor of any handle at most one run() is in flight.
C16_OneRunPerExecutor ==
    \A c, d \in Callers :
        (phase[c] = "executing" /\ phase[d] = "executing") =>
            \A i \in 1 .. Len(task[c]), j \in 1 .. Len(task[d]) :
                ( /\ c # d \/ i # j
                  /\ task[c][i].pc = "run"
                  /\ task[d][j].pc = "run" ) => available[c][i] # available[d][j]

\* Two batches execute and every task of both is inside run(), each on an
\* executor of its own.
C16_Witness ==
    /\ \A c \in Callers :
          /\ phase[c] = "executing"
          /\ \A i \in 1 .. Len(task[c]) : task[c][i].pc = "run"
    /\ \E h, k \in 1 .. Len(worker_pool) :
          h # k /\ Cardinality(RunsOn(h)) = 1 /\ Cardinality(RunsOn(k)) = 1

\* The call of c gets to the claim in this step: on arrival when the pool
\* is initialized, else when its starts are done.
ReachesClaim(c) ==
    /\ op'[c] = "execute_subtasks"
    /\ phase[c] \in {"idle", "starting"}
    /\ phase'[c] \in {"returned", "executing"}
    /\ ~InitFailed(c)'

\* The idle handles the call of c finds at its claim in this step.
IdleAtClaim(c) ==
    Len(IdleHandles(worker_pool)) +
        (IF phase[c] = "starting" THEN init_size[c] ELSE 0)

\* C17: a call that arrives on an initialized pool is admitted or refused
\* in the step of its arrival; a batch of valid size that finds fewer idle
\* handles than subtasks is refused in the step in which it gets to the
\* claim; a call starts executing only in that step, and a refused call
\* never starts executing.
C17_RejectedAtOnce ==
    [][ \A c \in Callers :
          /\ ( /\ phase[c] = "idle"
               /\ op'[c] = "execute_subtasks"
               /\ pool_initialized ) => phase'[c] \in {"returned", "executing"}
          /\ ( /\ ReachesClaim(c)
               /\ Len(subtasks'[c]) \in 1 .. PoolCapacity'
               /\ IdleAtClaim(c) < Len(subtasks'[c]) ) => NotEnough(c)'
          /\ (phase[c] # "executing" /\ phase'[c] = "executing") => ReachesClaim(c)
          /\ phase[c] = "returned" => phase'[c] \in {"returned", "idle"} ]_vars

\* A batch has been refused for want of idle handles while the batch that
\* holds them has not moved: each of its tasks is in its first run().
C17_Witness ==
    \E c, d \in Callers :
        /\ NotEnough(c)
        /\ phase[d] = "executing"
        /\ \A i \in 1 .. Len(task[d]) :
              task[d][i].pc = "run" /\ task[d][i].attempt = 0

C19_WritesUnderLock == \A w \in writes : w.locked

\* The slot s begins a call of execute on wrapper h in this step.
Begins(s, h) ==
    /\ call[s].pc = "idle"
    /\ call'[s].pc = "running"
    /\ call'[s].wrapper = h

\* C20: a call of execute adds exactly 1 to task_count, sets last_used to
\* the current time and calls run() once with the task text; nothing else
\* changes task_count or calls run(); a call whose run() raised ends with
\* that same error and a call whose run() returned ends with its result.
C20_ExecuteDelegates ==
    /\ [](\A h \in Wrappers : executor[h].runs = worker_pool[h].task_count)
    /\ [](\A s \in Slots :
            /\ call[s].pc = "raised" =>
                  /\ call[s].run_error # "none"
                  /\ call[s].error = call[s].run_error
            /\ call[s].pc = "returned" =>
                  /\ call[s].run_error = "none"
                  /\ call[s].error = "none"
                  /\ call[s].result = call[s].run_result)
    /\ [][ \A h \in Wrappers :
            /\ worker_pool'[h].task_count >= worker_pool[h].task_count
            /\ \A s \in Slots : Begins(s, h) =>
                  /\ worker_pool'[h].task_count = worker_pool[h].task_count + 1
                  /\ worker_pool'[h].last_used = now
                  /\ executor'[h].runs = executor[h].runs + 1
                  /\ executor'[h].last_arg = call'[s].subtask
            /\ (\A s \in Slots : ~Begins(s, h)) =>
                  /\ worker_pool'[h].task_count = worker_pool[h].task_count
                  /\ worker_pool'[h].last_used = worker_pool[h].last_used
                  /\ executor'[h] = executor[h] ]_vars

\* A wrapper has been called MaxCalls times, the last call at a later time
\* than its creation; that call's run() raised and the error reached the
\* caller.
C20_Witness ==
    \E s \in Slots :
        /\ call[s].pc = "raised"
        /\ call[s].error = "TimeoutError"
        /\ worker_pool[call[s].wrapper].task_count = MaxCalls
        /\ worker_pool[call[s].wrapper].last_used > 0
        /\ executor[call[s].wrapper].runs = MaxCalls

\* The run() calls the task i of c has made so far: one per attempt begun.
RunsMade(c, i) == task[c][i].attempt + 1

\* C21: the dispatcher reaches a handle's executor only through the
\* handle's execute, so a handle whose task has had a run() call answered
\* has counted at least the runs that task made.
C21_DispatchThroughExecute ==
    \A c \in Callers : phase[c] = "executing" =>
        \A i \in 1 .. Len(task[c]) :
            task[c][i].pc \in {"ok", "sleep", "failed"} =>
                worker_pool[available[c][i]].task_count >= RunsMade(c, i)

\* The places <<c, i>> of the batches in flight that hold the handle at
\* position h: the i-th claimed handle of the call of c.
HoldersOf(h) ==
    { ci \in Callers \X (1 .. Len(Letters)) :
        /\ phase[ci[1]] = "executing"
        /\ ci[2] <= Len(available[ci[1]])
        /\ available[ci[1]][ci[2]] = h }

\* The tasks in flight on the handle at position h: the execute_on_agent
\* coroutines on it that have not finished.
TasksOn(h) ==
    { ci \in HoldersOf(h) : ~Terminal(task[ci[1]][ci[2]]) }

\* C22 as stated: a handle is marked busy only while exactly one task is in
\* flight on it.
C22_BusyOnlyWhileTaskInFlight ==
    \A h \in 1 .. Len(worker_pool) :
        worker_pool[h].is_busy => Cardinality(TasksOn(h)) = 1

\* C22 as amended: a handle is marked busy only while exactly one batch in
\* flight holds it, in exactly one place, and on it at most one task is in
\* flight; it stays busy after its task has finished until the batch ends.
C22_BusyOnlyWhileClaimed ==
    \A h \in 1 .. Len(worker_pool) :
        worker_pool[h].is_busy =>
            LET held == HoldersOf(h)
            IN  /\ Cardinality(held) = 1
                /\ \A ci, dj \in held :
                      (~Terminal(task[ci[1]][ci[2]]) /\ ~Terminal(task[dj[1]][dj[2]]))
                          => ci = dj

\* A batch of two executes: the task on its first handle has returned, the
\* task on the second waits to retry, and both handles are marked busy.
C22_Witness ==
    \E c \in Callers :
        /\ phase[c] = "executing"
        /\ Len(task[c]) = 2
        /\ task[c][1].pc = "ok"
        /\ task[c][2].pc = "sleep"
        /\ \A i \in 1 .. 2 : worker_pool[available[c][i]].is_busy

\* C23: no two handles of worker_pool share an agent_id.
C23_AgentIdsUnique ==
    \A h, k \in 1 .. Len(worker_pool) :
        h # k => worker_pool[h].agent_id # worker_pool[k].agent_id

\* The places <<c, i>> of the tasks that exist: those of the calls that
\* execute or have just returned.
Tasks ==
    { ci \in Callers \X (1 .. Len(Letters)) : ci[2] <= Len(task[ci[1]]) }

\* C24: a task makes at most max_retrys = 5 run() calls: one that has given
\* up has made exactly 5, one that waits to retry has made fewer than 5; a
\* further run() is made only after the wait that follows a failed attempt,
\* a run() that returns at attempt k ends the task with k calls made, and a
\* finished task makes no further call.
C24_AtMostFiveRuns ==
    /\ [](\A ci \in Tasks :
            LET t == task[ci[1]][ci[2]]
            IN  t.pc # "base" =>
                  /\ RunsMade(ci[1], ci[2]) \in 1 .. max_retrys
                  /\ t.pc = "failed" => RunsMade(ci[1], ci[2]) = max_retrys
                  /\ t.pc = "sleep" => RunsMade(ci[1], ci[2]) < max_retrys)
    /\ [][ \A ci \in Tasks :
            LET c == ci[1]
                i == ci[2]
            IN  phase'[c] # "idle" =>
                  /\ Terminal(task[c][i]) => task'[c][i] = task[c][i]
                  /\ (task'[c][i].pc # "base" /\
                      task'[c][i].attempt # task[c][i].attempt) =>
                        /\ task[c][i].pc = "sleep"
                        /\ task'[c][i].pc = "run"
                        /\ RunsMade(c, i)' = RunsMade(c, i) + 1
                  /\ (task[c][i].pc = "run" /\ task'[c][i].pc = "ok") =>
                        RunsMade(c, i)' = RunsMade(c, i) ]_vars

\* A batch has returned in which one task gave up after its fifth run() and
\* another returned at its third.
C24_Witness ==
    \E c \in Callers :
        /\ Answered(c)
        /\ \E i, j \in 1 .. Len(task[c]) :
              /\ task[c][i].pc = "failed" /\ RunsMade(c, i) = max_retrys
              /\ task[c][j].pc = "ok" /\ RunsMade(c, j) = 3

\* C25: every wait between attempts lasts 1 second: a task that has begun
\* attempt number k + 1 has waited k seconds in all, a task waits only when
\* attempts remain, a task that returned after k failures has waited k
\* seconds, and one that gave up has waited max_retrys - 1 seconds, none
\* after its last failure.
C25_ConstantBackoff ==
    \A c \in Callers : \A i \in 1 .. Len(task[c]) :
        LET t == task[c][i]
        IN  t.pc # "base" =>
              /\ t.waited = t.attempt
              /\ t.pc = "sleep" => t.attempt < max_retrys - 1
              /\ t.pc = "failed" => t.waited = max_retrys - 1

\* One task has returned at its fourth attempt, after three waits, while
\* another is in the wait that follows its second failure.
C25_Witness ==
    \E c \in Callers : \E i, j \in 1 .. Len(task[c]) :
        /\ phase[c] = "executing"
        /\ task[c][i].pc = "ok" /\ task[c][i].waited = 3
        /\ task[c][j].pc = "sleep" /\ task[c][j].attempt = 1

\* The pool the call of c scans at its claim in this step: worker_pool,
\* with the wrappers the call itself appends when it comes from its starts.
PoolAtClaim(c) ==
    IF phase[c] = "starting" THEN worker_pool \o NewWrappers(c) ELSE worker_pool

\* The call of c claims its handles in this step.
Claims(c) == phase[c] # "executing" /\ phase'[c] = "executing"

\* C26: a claim takes the idle handles in pool order, skipping none: the
\* claimed positions increase, each was idle, every idle handle before the
\* last one claimed is claimed, and every handle not claimed keeps its
\* is_busy; the task at input position i runs on the i-th claimed handle
\* and its record names that handle and that subtask.
C26_FirstIdleInOrder ==
    /\ [](\A ci \in Tasks :
            LET c == ci[1]
                i == ci[2]
            IN  task[c][i].pc = "ok" =>
                  /\ task[c][i].out.agent_id = worker_pool[available[c][i]].agent_id
                  /\ task[c][i].out.subtask = subtasks[c][i])
    /\ [][ \A c \in Callers : Claims(c) =>
            LET pool == PoolAtClaim(c)
                got == available'[c]
            IN  /\ Len(got) = Len(subtasks'[c])
                /\ \A i, j \in 1 .. Len(got) : i < j => got[i] < got[j]
                /\ \A i \in 1 .. Len(got) :
                      /\ ~pool[got[i]].is_busy
                      /\ worker_pool'[got[i]].is_busy
                /\ \A h \in 1 .. Len(pool) :
                      /\ (~pool[h].is_busy /\ h < got[Len(got)]) => h \in Range(got)
                      /\ h \notin Range(got) =>
                            worker_pool'[h].is_busy = pool[h].is_busy ]_vars

\* A batch of one has claimed the second handle of a pool of three, the
\* first being held by another batch; the third handle is idle.
C26_Witness ==
    \E c, d \in Callers :
        /\ phase[c] = "executing"
        /\ phase[d] = "executing"
        /\ available[d] = <<1>>
        /\ available[c] = <<2>>
        /\ task[c][1] = NewTask
        /\ Len(worker_pool) = 3
        /\ ~worker_pool[3].is_busy

\* C27: a call whose batch fails validation (no subtask, or more subtasks
\* than the capacity) never waits for workers to start: it creates and
\* starts none.
C27_ValidationFirst ==
    \A c \in Callers :
        ( /\ op[c] = "execute_subtasks"
          /\ (Len(subtasks[c]) = 0 \/ Len(subtasks[c]) > PoolCapacity) ) =>
            phase[c] # "starting"

\* The phases a call may be in after a step, given the phase before it:
\* arrival, the starts of a lazy initialization, the gather of the tasks,
\* the answer, and the end of the call.
PhasesAfter(p) ==
    CASE p = "idle" -> {"idle", "starting", "executing", "returned"}
      [] p = "starting" -> {"starting", "executing", "returned"}
      [] p = "executing" -> {"executing", "returned"}
      [] p = "returned" -> {"returned", "idle"}

\* C28: a call goes through its phases in order and never back; a call
\* that has not been admitted holds no handle and has no task; while a
\* batch executes its handles stay busy; when its answer is ready every one
\* of its tasks has finished and its handles are idle already; the answer
\* is made in the step that ends the execution and in no other.
C28_PhaseOrder ==
    /\ [](\A c \in Callers :
            /\ phase[c] \in {"idle", "starting"} =>
                  task[c] = <<>> /\ available[c] = <<>>
            /\ (phase[c] = "returned" /\ ret[c].kind = "error" /\ ~Cancelled(c)) =>
                  task[c] = <<>> /\ available[c] = <<>>
            /\ phase[c] = "executing" =>
                  /\ ret[c] = NoRet
                  /\ \A h \in Range(available[c]) : worker_pool[h].is_busy
            /\ (phase[c] = "returned" /\ available[c] # <<>>) =>
                  /\ ret[c] # NoRet
                  /\ \A i \in 1 .. Len(task[c]) : Terminal(task[c][i])
                  /\ \A h \in Range(available[c]) : ~worker_pool[h].is_busy)
    /\ [][ \A c \in Callers :
            /\ phase'[c] \in PhasesAfter(phase[c])
            /\ (task'[c] # <<>> /\ task[c] = <<>>) => Claims(c)
            /\ (ret'[c] # ret[c] /\ phase[c] = "executing") =>
                  phase'[c] = "returned" ]_vars

\* A batch has its answer, with a task that gave up: its handle is idle
\* again while another batch still executes on a busy handle.
C28_Witness ==
    \E c, d \in Callers :
        /\ Answered(c)
        /\ task[c][1].pc = "failed"
        /\ ~worker_pool[available[c][1]].is_busy
        /\ phase[d] = "executing"
        /\ worker_pool[available[d][1]].is_busy

\* C29: the tasks of a batch advance one at a time, in any order, and a
\* step of one task, its failure included, leaves its siblings as they are;
\* the dict is returned only when every task has finished, and a task that
\* finished by failing made all max_retrys attempts whatever its siblings
\* did.  A task also finishes when its run() is cancelled.
C29_TasksIndependent ==
    /\ [](\A c \in Callers : Answered(c) =>
            \A i \in 1 .. Len(task[c]) :
                /\ Terminal(task[c][i])
                /\ task[c][i].pc = "failed" => RunsMade(c, i) = max_retrys)
    /\ [][ \A c \in Callers : phase[c] = "executing" =>
            /\ phase'[c] = "executing" =>
                  \A i, j \in 1 .. Len(task[c]) :
                      (i # j /\ task'[c][i] # task[c][i]) => task'[c][j] = task[c][j]
            /\ Answered(c)' =>
                  /\ \A i \in 1 .. Len(task[c]) : Terminal(task[c][i])
                  /\ task'[c] = task[c] ]_vars

\* In a batch of two the first task has given up while the second, behind
\* it by two attempts, is inside run().
C29_Witness ==
    \E c \in Callers :
        /\ phase[c] = "executing"
        /\ Len(task[c]) = 2
        /\ task[c][1].pc = "failed"
        /\ task[c][2].pc = "run"
        /\ task[c][2].attempt = 2

RECURSIVE SumRuns(_, _)
\* The run() calls made so far by the first k tasks of the batch of c (a
\* task ended by a cancellation is not counted).
SumRuns(c, k) ==
    IF k = 0 THEN 0
    ELSE (IF task[c][k].pc = "base" THEN 0 ELSE RunsMade(c, k)) + SumRuns(c, k - 1)

\* C30: a batch of n tasks makes at most 5n run() calls, and, every run()
\* returning or raising in the end, a batch that executes leads to its
\* call having returned with every handle it claimed idle again.
C30_BatchTerminates ==
    /\ [](\A c \in Callers :
            SumRuns(c, Len(task[c])) <= max_retrys * Len(subtasks[c]))
    /\ \A c \in Callers :
          (phase[c] = "executing") ~>
              ( /\ phase[c] = "returned"
                /\ ret[c].kind = "result" \/ Cancelled(c)
                /\ \A h \in Range(available[c]) : ~worker_pool[h].is_busy )

\* A batch of three has returned after 5 run() calls of each of its tasks.
C30_Witness ==
    \E c \in Callers :
        /\ Answered(c)
        /\ Len(task[c]) = 3
        /\ SumRuns(c, 3) = max_retrys * 3
        /\ \A h \in Range(available[c]) : ~worker_pool[h].is_busy

\* C31: in the dict an admitted call returns, every task that ended by
\* raising, an ordinary error after its retries or a cancellation of its
\* run(), has exactly one record in "failed", and "results" holds success
\* records only.
C31_RaisedBecomesFailed ==
    \A c \in Callers : Answered(c) =>
        /\ \A j \in 1 .. Len(ret[c].results) : IsSuccessRecord(ret[c].results[j])
        /\ \A i \in 1 .. Len(task[c]) :
              task[c][i].pc \in {"failed", "base"} =>
                  Cardinality(FailuresOf(c, i - 1)) = 1

\* C32: the dict of an admitted call reports the number of subtasks, as
\* many agents used, and as pool_size the number of handles in worker_pool.
C32_ResultCounts ==
    \A c \in Callers : Answered(c) =>
        /\ ret[c].subtasks_count = Len(subtasks[c])
        /\ ret[c].agents_used = Len(subtasks[c])
        /\ ret[c].pool_size = Len(worker_pool)

\* C33: in the dict of an admitted call, the record in "failed" of a task
\* that gave up carries the text of that task, the number of attempts
\* made, which is max_retrys, the time the task took and the class of the
\* error of its last attempt, with the id of the handle it ran on.
C33_FailureRecordDetail ==
    \A c \in Callers : Answered(c) =>
        \A i \in 1 .. Len(task[c]) :
            task[c][i].pc = "failed" =>
                \E j \in 1 .. Len(ret[c].failed) :
                    LET e == ret[c].failed[j].error
                    IN  /\ FailuresOf(c, i - 1) = {j}
                        /\ e.subtask = subtasks[c][i]
                        /\ e.attempts = max_retrys
                        /\ e.attempts = RunsMade(c, i)
                        /\ e.took = task[c][i].waited
                        /\ e.error_type \in Errors
                        /\ e.agent_id = AgentIdOf(c, i)

\* A batch of two has returned: its first task succeeded and its second
\* gave up, with a record in "failed".
C33_Witness ==
    \E c \in Callers :
        /\ Answered(c)
        /\ Len(task[c]) = 2
        /\ task[c][1].pc = "ok"
        /\ task[c][2].pc = "failed"
        /\ Len(ret[c].failed) = 1
        /\ ret[c].failed[1].error.subtask = "b"

\* C34: when an executing call has been cancelled, every handle it claimed
\* is idle and every task of its batch has ended; and at no time is a
\* task that has not ended on a handle that is idle, so a handle that can
\* be claimed runs nothing.
C34_CancelReleases ==
    \A c \in Callers :
        /\ Cancelled(c) =>
              \A i \in 1 .. Len(available[c]) :
                  /\ ~worker_pool[available[c][i]].is_busy
                  /\ Terminal(task[c][i])
        /\ \A i \in 1 .. Len(task[c]) :
              ~Terminal(task[c][i]) => worker_pool[available[c][i]].is_busy

\* A batch of two was cancelled when its first task had returned and its
\* second was in flight: the second ended with CancelledError and both
\* handles are idle.
C34_Witness ==
    \E c \in Callers :
        /\ Cancelled(c)
        /\ Len(task[c]) = 2
        /\ task[c][1].pc = "ok"
        /\ task[c][2].out = CancelledError
        /\ \A i \in 1 .. 2 : ~worker_pool[available[c][i]].is_busy

C36_AssignmentFixed ==
    /\ [](\A c \in Callers :
            /\ Len(available[c]) = Len(task[c])
            /\ \A i, j \in 1 .. Len(available[c]) :
                  i # j => available[c][i] # available[c][j]
            /\ \A i \in 1 .. Len(task[c]) :
                  /\ task[c][i].pc = "ok" =>
                        task[c][i].out.agent_id = worker_pool[available[c][i]].agent_id
                  /\ task[c][i].pc = "failed" =>
                        task[c][i].out.message.agent_id =
                            worker_pool[available[c][i]].agent_id)
    /\ [][ \A c \in Callers :
            (phase[c] = "executing" /\ phase'[c] # "idle") =>
                /\ available'[c] = available[c]
                /\ \A i \in 1 .. Len(available[c]) :
                      worker_pool'[available[c][i]].agent_id =
                          worker_pool[available[c][i]].agent_id ]_vars

\* In a batch of two the second task has returned at its third attempt,
\* on the second handle, whose id its record carries, while the first task
\* is at its second attempt.
C36_Witness ==
    \E c \in Callers :
        /\ phase[c] = "executing"
        /\ available[c] = <<1, 2>>
        /\ task[c][1].pc = "run" /\ task[c][1].attempt = 1
        /\ task[c][2].pc = "ok" /\ task[c][2].attempt = 2
        /\ task[c][2].out.agent_id = <<"search_agent", 1>>

RECURSIVE ClaimedBy(_)
\* The subtasks of the admitted batches, among the calls of S, that have
\* not released their handles yet.
ClaimedBy(S) ==
    IF S = {} THEN 0
    ELSE LET c == CHOOSE x \in S : TRUE
         IN  (IF phase[c] = "executing" THEN Len(subtasks[c]) ELSE 0)
                 + ClaimedBy(S \ {c})

\* C37: the handles marked busy number the subtasks of the batches that
\* execute; when no batch executes every handle is idle.
C37_BusyEqualsClaimed ==
    /\ BusyCount(worker_pool) = ClaimedBy(Callers)
    /\ (\A c \in Callers : phase[c] # "executing") =>
          \A h \in 1 .. Len(worker_pool) : ~worker_pool[h].is_busy

\* Two batches execute at the same time and two handles are busy.
C37_Witness ==
    /\ \A c \in Callers : phase[c] = "executing" /\ Len(subtasks[c]) = 1
    /\ BusyCount(worker_pool) = 2

\* The call of c releases its handles in this step: its batch returns or
\* is cancelled.
Releases(c) == phase[c] = "executing" /\ phase'[c] = "returned"

\* The call of c is refused in this step, at validation or at the claim.
RefusedNow(c) ==
    /\ phase[c] \in {"idle", "starting"}
    /\ EmptyBatch(c)' \/ TooMany(c)' \/ NotEnough(c)'

\* C38: the release of a batch clears is_busy on the handles the batch
\* claimed and leaves the flag of every other handle as it is, so that of
\* a handle another batch holds stays set; a call refused at validation or
\* at the claim leaves every flag as it is.
C38_ReleaseOnlyOwn ==
    [][ \A c \in Callers :
          /\ Releases(c) =>
                \A h \in 1 .. Len(worker_pool) :
                    worker_pool'[h].is_busy =
                        (worker_pool[h].is_busy /\ h \notin Range(available[c]))
          /\ RefusedNow(c) =>
                /\ \A h \in 1 .. Len(worker_pool) :
                      worker_pool'[h].is_busy = worker_pool[h].is_busy
                /\ \A h \in Len(worker_pool) + 1 .. Len(worker_pool') :
                      ~worker_pool'[h].is_busy ]_vars

\* A batch has returned and released its handle while another batch still
\* executes on a handle that is busy.
C38_Witness ==
    \E c, d \in Callers :
        /\ phase[c] = "returned"
        /\ available[c] # <<>>
        /\ ~worker_pool[available[c][1]].is_busy
        /\ phase[d] = "executing"
        /\ \A h \in Range(available[d]) : worker_pool[h].is_busy
        /\ \E i \in 1 .. Len(task[d]) : task[d][i].pc = "sleep"

\* The handles of worker_pool that are not marked busy, counted.
IdleCount == Len(worker_pool) - BusyCount(worker_pool)

\* C39: a call refused for want of agents found fewer idle handles than
\* it has subtasks; a call of valid size on a pool with at least that many
\* idle handles is not refused: it ends with the dict of its batch, unless
\* its initialization failed or it was cancelled.  (A call that has
\* returned leaves the pool as its claim found it, or with its handles
\* released.)
C39_NoSpuriousRejection ==
    \A c \in Callers :
        /\ NotEnough(c) => IdleCount < Len(subtasks[c])
        /\ ( /\ phase[c] = "returned"
             /\ op[c] = "execute_subtasks"
             /\ Len(subtasks[c]) \in 1 .. PoolCapacity
             /\ IdleCount >= Len(subtasks[c]) ) =>
                Answered(c) \/ Cancelled(c) \/ InitFailed(c)

\* Two batches came to a pool of three idle handles and both were admitted:
\* they execute at the same time and one handle is still idle.
C39_Witness ==
    /\ Len(worker_pool) = 3
    /\ PoolCapacity = 3
    /\ \A c \in Callers : phase[c] = "executing" /\ Len(task[c]) = 1
    /\ IdleCount = 1

\* The input positions of the tasks of c that gave up, in input order.
FailingTasks(c) ==
    SelectSeq([i \in 1 .. Len(task[c]) |-> i], LAMBDA i : task[c][i].pc = "failed")

\* C40: in the dict of an admitted call the success records of "results"
\* come in strictly increasing subtask_index, each being the record its
\* task returned, and the i-th entry of "failed" is the error of the i-th
\* task of the input that gave up, whatever the order the tasks ended in.
C40_OutcomesInInputOrder ==
    \A c \in Callers : Answered(c) =>
        /\ \A j, k \in 1 .. Len(ret[c].results) :
              ( /\ j < k
                /\ IsSuccessRecord(ret[c].results[j])
                /\ IsSuccessRecord(ret[c].results[k]) ) =>
                  ret[c].results[j].subtask_index < ret[c].results[k].subtask_index
        /\ \A j \in 1 .. Len(ret[c].results) :
              IsSuccessRecord(ret[c].results[j]) =>
                  ret[c].results[j] = task[c][ret[c].results[j].subtask_index + 1].out
        /\ Len(ret[c].failed) = Len(FailingTasks(c))
        /\ \A j \in 1 .. Len(ret[c].failed) :
              ret[c].failed[j].error = task[c][FailingTasks(c)[j]].out.message

\* A batch of three has returned: its first task returned late, at its
\* third attempt, its second gave up and its third returned at once; the
\* records of the first and the third are in "results" in that order.
C40_Witness ==
    \E c \in Callers :
        /\ Answered(c)
        /\ Len(task[c]) = 3
        /\ task[c][1].pc = "ok" /\ task[c][1].attempt = 2
        /\ task[c][2].pc = "failed"
        /\ task[c][3].pc = "ok" /\ task[c][3].attempt = 0
        /\ Len(ret[c].results) = 2
        /\ ret[c].results[1].subtask_index = 0
        /\ ret[c].results[2].subtask_index = 2

====
